---------------------------- MODULE Spec2Model ----------------------------
(***************************************************************************)
(* gbtile: PNG image -> Game Boy 2bpp tile data -> GBDK / RGBDS source.    *)
(* The model follows src/src/main.rs: main runs decode_image, encode_tile  *)
(* and write_tile in sequence; a Result::Err reaching main's expect ends   *)
(* the run.  Text is modelled as a sequence of one-character strings.      *)
(***************************************************************************)
EXTENDS Integers, Sequences, FiniteSets, TLC

VARIABLES
    pc,             \* position of main: "start", "decoded", "encoded", "done", "failed"
    png,            \* the decoded PNG frame: width, height, color_type, palette, pattern
    image_data,     \* DecodedImage.image_data: Vec<RGB>
    unique_colors,  \* decode_image's BTreeSet<RGB>
    stopped_at,     \* the index i decode_image logs when it returns TooManyColors, else -1
    color_numbers,  \* DecodedImage.color_numbers: HashMap<RGB, u8>
    tile_data,      \* EncodedTile.tile_data: Vec<u8>
    err,            \* what ended the run: "none" or the error / panic
    out_file,       \* the content of the output file
    out_opened,     \* whether write_tile has opened (and truncated) the output file
    fn_in,          \* argument of the function applied in a function-level specification
    fn_out          \* its result

vars == <<pc, png, image_data, unique_colors, stopped_at,
          color_numbers, tile_data, err, out_file, out_opened, fn_in, fn_out>>

----------------------------------------------------------------------------
(* Bounds of the model *)

\* image dimensions are 8 * b + e with b <= MaxBlocks blocks and e extra pixels
MaxBlocks == 2
\* the extra pixels of a dimension that is not divisible by 8
ExtraPixels == 3
\* number of pixel patterns the input images are drawn from
NumPatterns == 7
\* longest byte stream handed to write_tile_gbdk on its own
MaxStream == 34

----------------------------------------------------------------------------
(* Integer helpers: Rust's fixed-width operators *)

Pow2(n) == 2 ^ n

U8(x) == x % 256

U16(x) == x % 65536

RECURSIVE BitAnd(_, _)
BitAnd(x, y) ==
    IF x = 0 \/ y = 0 THEN 0
    ELSE (IF x % 2 = 1 /\ y % 2 = 1 THEN 1 ELSE 0) + 2 * BitAnd(x \div 2, y \div 2)

RECURSIVE BitOr(_, _)
BitOr(x, y) ==
    IF x = 0 THEN y
    ELSE IF y = 0 THEN x
    ELSE (IF x % 2 = 1 \/ y % 2 = 1 THEN 1 ELSE 0) + 2 * BitOr(x \div 2, y \div 2)

\* x << n on u8 (bits shifted out are lost)
Shl8(x, n) == U8(x * Pow2(n))

\* x >> n
Shr(x, n) == x \div Pow2(n)

----------------------------------------------------------------------------
(* struct RGB *)

Rgb(r, g, b) == [r |-> r, g |-> g, b |-> b]

\* RGB::round
round(rgb) == Rgb((rgb.r \div 32) * 32, (rgb.g \div 32) * 32, (rgb.b \div 32) * 32)

GB_MAX_COLOR_COUNT == 4

PIXELS_PER_LINE == 8

----------------------------------------------------------------------------
(* The input: what the PNG decoder hands to read_image_data *)

ColorTypes == {"RGB", "RGBA", "Grayscale", "GrayscaleAlpha", "Indexed"}

\* raw (unrounded) colors the input images are painted with
Palettes ==
    << << Rgb(0, 0, 0) >>,
       << Rgb(255, 255, 255) >>,
       << Rgb(0, 0, 0), Rgb(85, 85, 85), Rgb(170, 170, 170), Rgb(255, 255, 255) >>,
       << Rgb(255, 0, 0), Rgb(0, 255, 0), Rgb(0, 0, 255), Rgb(255, 255, 0) >>,
       << Rgb(255, 255, 255), Rgb(250, 240, 230), Rgb(0, 0, 0), Rgb(10, 20, 30),
          Rgb(100, 100, 100) >>,
       << Rgb(0, 0, 0), Rgb(32, 0, 0), Rgb(0, 32, 0), Rgb(0, 0, 32), Rgb(32, 32, 0),
          Rgb(255, 255, 255) >>,
       << Rgb(0, 0, 0), Rgb(64, 64, 64), Rgb(128, 128, 128), Rgb(192, 192, 192),
          Rgb(255, 255, 255) >> >>

Dimensions == {8 * b + e : b \in 0..MaxBlocks, e \in {0, ExtraPixels}} \ {0}

\* RGB frames of every size, palette and pattern; the other layouts at the sizes
\* around one block, under the patterns that vary along both axes
Pngs ==
    { p \in [width : Dimensions, height : Dimensions, color_type : ColorTypes,
             palette : 1..Len(Palettes), pattern : 1..NumPatterns] :
        \/ p.color_type = "RGB"
        \/ /\ p.width \in {8, 8 + ExtraPixels}
           /\ p.height \in {8, 8 + ExtraPixels}
           /\ p.pattern \in {4, 6} }

\* which palette entry pixel i (row-major, from 0) of the image shows
PatternIndex(p, i) ==
    LET k == Len(Palettes[p.palette])
        x == i % p.width
        y == i \div p.width
    IN  CASE p.pattern = 1 -> 0
          [] p.pattern = 2 -> x % k
          [] p.pattern = 3 -> y % k
          [] p.pattern = 4 -> (x + y) % k
          [] p.pattern = 5 -> ((x \div 8) + 2 * (y \div 8)) % k
          [] p.pattern = 6 -> (x * x + 3 * y + x * y + (i \div 7)) % k
          [] p.pattern = 7 -> IF i = (p.width * p.height) \div 2 THEN k - 1
                              ELSE IF k = 1 THEN 0 ELSE (x + 2 * y) % (k - 1)
          [] OTHER -> (p.pattern * x + y) % k

RawPixel(p, i) == Palettes[p.palette][PatternIndex(p, i) + 1]

RawAlpha(i) == (i * 37) % 256

\* bytes per pixel of an 8-bit frame
Samples(color_type) ==
    CASE color_type = "RGB" -> 3
      [] color_type = "RGBA" -> 4
      [] color_type = "GrayscaleAlpha" -> 2
      [] OTHER -> 1

\* the frame buffer next_frame fills: info.buffer_size() bytes
ImageBuf(p) ==
    LET n == Samples(p.color_type)
    IN  [j \in 1..(p.width * p.height * n) |->
            LET i == (j - 1) \div n
                c == (j - 1) % n
                px == RawPixel(p, i)
            IN  CASE p.color_type = "RGB" ->
                        (IF c = 0 THEN px.r ELSE IF c = 1 THEN px.g ELSE px.b)
                  [] p.color_type = "RGBA" ->
                        (IF c = 0 THEN px.r ELSE IF c = 1 THEN px.g
                         ELSE IF c = 2 THEN px.b ELSE RawAlpha(i))
                  [] p.color_type = "Grayscale" -> px.r
                  [] p.color_type = "GrayscaleAlpha" ->
                        (IF c = 0 THEN px.r ELSE RawAlpha(i))
                  [] OTHER -> PatternIndex(p, i)]

----------------------------------------------------------------------------
(* read_image_data *)

Min(a, b) == IF a < b THEN a ELSE b

\* slice::chunks(n)
Chunks(buf, n) ==
    [k \in 1..((Len(buf) + n - 1) \div n) |->
        SubSeq(buf, n * (k - 1) + 1, Min(n * k, Len(buf)))]

read_image_data(color_type, image_buf) ==
    LET chunks3 == Chunks(image_buf, 3)
        chunks4 == Chunks(image_buf, 4)
        chunks2 == Chunks(image_buf, 2)
    IN  CASE color_type = "RGB" ->
                [err |-> "none",
                 data |-> [k \in DOMAIN chunks3 |->
                            LET color == chunks3[k]
                            IN  round(Rgb(color[1], color[2], color[3]))]]
          [] color_type = "RGBA" ->
                [err |-> "none",
                 data |-> [k \in DOMAIN chunks4 |->
                            LET color == chunks4[k]
                            IN  round(Rgb(color[1], color[2], color[3]))]]
          [] color_type = "Grayscale" ->
                [err |-> "none",
                 data |-> [k \in DOMAIN image_buf |->
                            round(Rgb(image_buf[k], image_buf[k], image_buf[k]))]]
          [] color_type = "GrayscaleAlpha" ->
                [err |-> "none",
                 data |-> [k \in DOMAIN chunks2 |->
                            LET color == chunks2[k]
                            IN  round(Rgb(color[1], color[1], color[1]))]]
          [] OTHER -> [err |-> "UnsupportedColorType", data |-> << >>]

----------------------------------------------------------------------------
(* decode_image *)

\* map_2bit with the upper end of each bucket left out of it (< for <=)
map_2bit_exclusive(rgb) ==
    LET sum == U16(U16(rgb.r + rgb.g) + rgb.b)
    IN  IF sum < 191 THEN 3
        ELSE IF sum >= 191 /\ sum < 382 THEN 2
        ELSE IF sum >= 382 /\ sum < 573 THEN 1
        ELSE 0

map_2bit(rgb) ==
    LET sum == U16(U16(rgb.r + rgb.g) + rgb.b)
    IN  IF sum <= 191 THEN 3
        ELSE IF sum > 191 /\ sum <= 382 THEN 2
        ELSE IF sum > 382 /\ sum <= 573 THEN 1
        ELSE 0

\* the enumeration policy: a color's index is its rank in (r, g, b) order
rgbs_to_color_number_enumerated(colors) ==
    [rgb \in colors |->
        Cardinality({c \in colors :
            \/ c.r < rgb.r
            \/ c.r = rgb.r /\ c.g < rgb.g
            \/ c.r = rgb.r /\ c.g = rgb.g /\ c.b < rgb.b})]

rgbs_to_color_number(colors) == [rgb \in colors |-> map_2bit(rgb)]

\* the scan's test with a budget of one color more
OverBudgetOfFive(colors) == Cardinality(colors) > GB_MAX_COLOR_COUNT + 1

\* the scan's test with >= for >
OverBudgetAtLimit(colors) == Cardinality(colors) >= GB_MAX_COLOR_COUNT

\* the test of decode_image's scan: unique_colors.len() > GB_MAX_COLOR_COUNT
OverBudget(colors) == Cardinality(colors) > GB_MAX_COLOR_COUNT

\* one iteration of decode_image's scan, at pixel i (0-based): insert, then test
ScanStep(data, i, scan) ==
    LET seen == scan.unique_colors \cup {data[i + 1]}
    IN  IF OverBudget(seen)
        THEN [err |-> "TooManyColors", unique_colors |-> seen, stopped_at |-> i]
        ELSE [err |-> "none", unique_colors |-> seen, stopped_at |-> -1]

\* the iterations for pixels lo .. hi - 1 in order, stopping at the first return; the
\* range is split in two halves run one after the other to keep the evaluation shallow
RECURSIVE ScanColors(_, _, _, _)
ScanColors(data, lo, hi, scan) ==
    IF scan.err # "none" \/ lo >= hi THEN scan
    ELSE IF hi = lo + 1 THEN ScanStep(data, lo, scan)
    ELSE LET mid == (lo + hi) \div 2
             first == ScanColors(data, lo, mid, scan)
         IN  ScanColors(data, mid, hi, first)

decode_image(p) ==
    LET read == read_image_data(p.color_type, ImageBuf(p))
        scan == ScanColors(read.data, 0, Len(read.data),
                           [err |-> "none", unique_colors |-> {}, stopped_at |-> -1])
    IN  IF read.err # "none"
        THEN [err |-> read.err, image_data |-> << >>, unique_colors |-> {},
              stopped_at |-> -1, color_numbers |-> << >>]
        ELSE IF scan.err # "none"
        THEN [err |-> scan.err, image_data |-> << >>,
              unique_colors |-> scan.unique_colors, stopped_at |-> scan.stopped_at,
              color_numbers |-> << >>]
        ELSE [err |-> "none", image_data |-> read.data,
              unique_colors |-> scan.unique_colors, stopped_at |-> -1,
              color_numbers |-> rgbs_to_color_number(scan.unique_colors)]

----------------------------------------------------------------------------
(* encode_tile *)

\* DecodedImage::lookup_color; MissingKey stands for the unwrap of a missing key
MissingKey == -1

lookup_color(numbers, pixel) ==
    IF pixel \in DOMAIN numbers THEN numbers[pixel] ELSE MissingKey

\* number of 8-pixel blocks along a dimension: info.height / 8, info.width / 8
BlockCount(dimension) == dimension \div 8

\* a tile of 7 rows: the range 0..7
TILE_ROWS_SHORT == 8 - 1

\* rows of one tile: the range 0..8 of tile_row
TILE_ROWS == 8

\* the pixel index with the row stride taken from the number of whole blocks
PixelIndexBlockStride(width, row, column, tile_row, tile_column) ==
    (column * 8 + tile_column)
        + (((width \div 8) * 8 * tile_row) + (row * 8 * ((width \div 8) * 8)))

\* u32 arithmetic; no product wraps for the image sizes of the model
PixelIndex(width, row, column, tile_row, tile_column) ==
    (column * 8 + tile_column) + ((width * tile_row) + (row * 8 * width))

\* the shift that puts pixel 0 in the least significant bit
ShiftAmountFromLsb(tile_column) == U8(tile_column)

\* PIXELS_PER_LINE - tile_column as u8 - 1
ShiftAmount(tile_column) == PIXELS_PER_LINE - U8(tile_column) - 1

\* (color & 0x01) << shift
LowBit(color, shift) == Shl8(BitAnd(color, 1), shift)

\* the high bit plane filled from bit 0 of the color
HighBitUnshifted(color, shift) == Shl8(BitAnd(color, 1), shift)

\* ((color >> 1) & 0x01) << shift
HighBit(color, shift) == Shl8(BitAnd(Shr(color, 1), 1), shift)

\* for tile_column in 0..8: the two bytes of one tile row
RECURSIVE TileColumnLoop(_, _, _, _, _, _, _)
TileColumnLoop(d, row, column, tile_row, tile_column, low_byte, high_byte) ==
    IF tile_column >= PIXELS_PER_LINE
    THEN [panic |-> "none", low_byte |-> low_byte, high_byte |-> high_byte]
    ELSE LET pixel_index == PixelIndex(d.width, row, column, tile_row, tile_column)
         IN  IF pixel_index >= Len(d.image_data)
             THEN [panic |-> "IndexOutOfBounds", low_byte |-> low_byte,
                   high_byte |-> high_byte]
             ELSE LET pixel == d.image_data[pixel_index + 1]
                      color == lookup_color(d.color_numbers, pixel)
                      shift == ShiftAmount(tile_column)
                  IN  IF color = MissingKey
                      THEN [panic |-> "MissingColor", low_byte |-> low_byte,
                            high_byte |-> high_byte]
                      ELSE TileColumnLoop(d, row, column, tile_row, tile_column + 1,
                                          BitOr(low_byte, LowBit(color, shift)),
                                          BitOr(high_byte, HighBit(color, shift)))

\* for tile_row in 0..8: push low_byte, then high_byte
RECURSIVE TileRowLoop(_, _, _, _, _)
TileRowLoop(d, row, column, tile_row, acc) ==
    IF tile_row >= TILE_ROWS \/ acc.panic # "none" THEN acc
    ELSE LET bytes == TileColumnLoop(d, row, column, tile_row, 0, 0, 0)
         IN  IF bytes.panic # "none"
             THEN [acc EXCEPT !.panic = bytes.panic]
             ELSE TileRowLoop(d, row, column, tile_row + 1,
                    [acc EXCEPT !.tile_data =
                        Append(Append(@, bytes.low_byte), bytes.high_byte)])

\* for column in 0..columns
RECURSIVE ColumnLoop(_, _, _, _, _)
ColumnLoop(d, columns, row, column, acc) ==
    IF column >= columns \/ acc.panic # "none" THEN acc
    ELSE ColumnLoop(d, columns, row, column + 1, TileRowLoop(d, row, column, 0, acc))

\* for row in 0..rows
RECURSIVE RowLoop(_, _, _, _, _)
RowLoop(d, rows, columns, row, acc) ==
    IF row >= rows \/ acc.panic # "none" THEN acc
    ELSE RowLoop(d, rows, columns, row + 1, ColumnLoop(d, columns, row, 0, acc))

\* the blocks taken column by column: for column in 0..columns, for row in 0..rows
RECURSIVE RowLoopInner(_, _, _, _, _)
RowLoopInner(d, rows, column, row, acc) ==
    IF row >= rows \/ acc.panic # "none" THEN acc
    ELSE RowLoopInner(d, rows, column, row + 1, TileRowLoop(d, row, column, 0, acc))

RECURSIVE ColumnLoopOuter(_, _, _, _, _)
ColumnLoopOuter(d, rows, columns, column, acc) ==
    IF column >= columns \/ acc.panic # "none" THEN acc
    ELSE ColumnLoopOuter(d, rows, columns, column + 1, RowLoopInner(d, rows, column, 0, acc))

encode_tile_column_major(d) ==
    ColumnLoopOuter(d, BlockCount(d.height), BlockCount(d.width), 0,
                    [panic |-> "none", tile_data |-> << >>])

\* d: [width, height, image_data, color_numbers]
encode_tile(d) ==
    RowLoop(d, BlockCount(d.height), BlockCount(d.width), 0,
            [panic |-> "none", tile_data |-> << >>])

----------------------------------------------------------------------------
(* write_tile_gbdk, write_tile_rgbds, write_tile *)

UpperDigits == <<"0", "1", "2", "3", "4", "5", "6", "7", "8", "9",
                 "A", "B", "C", "D", "E", "F">>

LowerDigits == <<"0", "1", "2", "3", "4", "5", "6", "7", "8", "9",
                 "a", "b", "c", "d", "e", "f">>

\* the digits of n in base 16, without padding
RECURSIVE Hex(_, _)
Hex(n, digits) ==
    IF n < 16 THEN <<digits[n + 1]>>
    ELSE Hex(n \div 16, digits) \o <<digits[(n % 16) + 1]>>

\* the 0 flag of a format spec: zeros on the left up to width characters
RECURSIVE ZeroPad(_, _)
ZeroPad(text, width) ==
    IF Len(text) >= width THEN text ELSE ZeroPad(<<"0">> \o text, width)

\* format!("{:#X}", byte): no padding
FormatGbdkByteUnpadded(byte) == <<"0", "x">> \o Hex(byte, UpperDigits)

\* format!("{:#04X}", byte): the width counts the 0x prefix
FormatGbdkByte(byte) == <<"0", "x">> \o ZeroPad(Hex(byte, UpperDigits), 4 - 2)

\* format!("${:02x}", byte)
FormatRgbdsByte(byte) == <<"$">> \o ZeroPad(Hex(byte, LowerDigits), 2)

\* [T]::join(sep)
RECURSIVE Join(_, _)
Join(parts, sep) ==
    IF Len(parts) = 0 THEN << >>
    ELSE IF Len(parts) = 1 THEN parts[1]
    ELSE parts[1] \o sep \o Join(Tail(parts), sep)

GbdkLine(line) ==
    <<" ", " ", " ", " ">> \o Join([k \in DOMAIN line |-> FormatGbdkByte(line[k])], <<",">>)

RgbdsLine(line) ==
    <<" ", " ", " ", " ", "d", "b", " ">>
        \o Join([k \in DOMAIN line |-> FormatRgbdsByte(line[k])], <<",">>)

write_tile_gbdk(variable_name, data) ==
    LET preamble == <<"u", "n", "s", "i", "g", "n", "e", "d", " ", "c", "h", "a", "r", " ">>
                        \o variable_name \o <<"[", "]", " ", "=", " ", "{">>
        lines == Chunks(data, 16)
        body == [k \in DOMAIN lines |-> GbdkLine(lines[k])]
    IN  preamble \o <<"\n">> \o Join(body, <<",", "\n">>) \o <<"\n", "}", ";", "\n">>

write_tile_rgbds(variable_name, data) ==
    LET end_symbol == variable_name \o <<"_", "e", "n", "d">>
        preamble == <<"S", "E", "C", "T", "I", "O", "N", " ", "\"", "T", "i", "l", "e", "s",
                      " ", "f", "o", "r", " ", "'">> \o variable_name
                        \o <<"'", "\"", ",", " ", "R", "O", "M", "0", "\n", "\n",
                             "E", "X", "P", "O", "R", "T", " ">> \o variable_name
                        \o <<",", " ">> \o end_symbol \o <<"\n", "\n">>
                        \o variable_name \o <<":">>
        lines == Chunks(data, 16)
        body == [k \in DOMAIN lines |-> RgbdsLine(lines[k])]
    IN  preamble \o <<"\n">> \o Join(body, <<",", "\n">>) \o <<"\n">>
            \o end_symbol \o <<":", "\n">>

\* the last position of character ch in text, 0 when there is none
LastIndexOf(text, ch) ==
    LET at == {k \in DOMAIN text : text[k] = ch}
    IN  IF at = {} THEN 0 ELSE CHOOSE k \in at : \A j \in at : j <= k

\* Path::file_stem
FileStem(path) ==
    LET name == SubSeq(path, LastIndexOf(path, "/") + 1, Len(path))
        dot == LastIndexOf(name, ".")
    IN  IF name = << >> \/ name = <<".", ".">> THEN [some |-> FALSE, stem |-> << >>]
        ELSE IF dot <= 1 THEN [some |-> TRUE, stem |-> name]
        ELSE [some |-> TRUE, stem |-> SubSeq(name, 1, dot - 1)]

OutputTypes == {"Gbdk", "Rgbds"}

\* the text write_tile hands to the file
FormattedResult(variable_name, data, output_type) ==
    IF output_type = "Gbdk" THEN write_tile_gbdk(variable_name, data)
    ELSE write_tile_rgbds(variable_name, data)

----------------------------------------------------------------------------
(* main *)

InputFilenames ==
    { <<"f", "o", "o", ".", "p", "n", "g">>,
      <<"a", "r", "t", "/", "b", "g", ".", "v", "2", ".", "p", "n", "g">> }

\* what the output file holds before the run
StaleContent == <<"o", "l", "d">>

Init ==
    /\ pc = "start"
    /\ png \in Pngs
    /\ image_data = << >>
    /\ unique_colors = {}
    /\ stopped_at = -1
    /\ color_numbers = << >>
    /\ tile_data = << >>
    /\ err = "none"
    /\ out_file = StaleContent
    /\ out_opened = FALSE
    /\ fn_in = << >>
    /\ fn_out = << >>

\* File::open(image_input)? or the decoder's read_info / next_frame fails
DecodeFails ==
    /\ pc = "start"
    /\ \E e \in {"Io", "Png"} : err' = e
    /\ pc' = "failed"
    /\ UNCHANGED <<png, image_data, unique_colors, stopped_at,
                   color_numbers, tile_data, out_file, out_opened, fn_in, fn_out>>

\* let decoded_image = decode_image(&args.input).expect(..)
DecodeImage ==
    /\ pc = "start"
    /\ \E decoded \in {decode_image(png)} :
          /\ err' = decoded.err
          /\ image_data' = decoded.image_data
          /\ unique_colors' = decoded.unique_colors
          /\ stopped_at' = decoded.stopped_at
          /\ color_numbers' = decoded.color_numbers
          /\ pc' = IF decoded.err = "none" THEN "decoded" ELSE "failed"
    /\ UNCHANGED <<png, tile_data, out_file, out_opened, fn_in, fn_out>>

\* let encoded_tile = encode_tile(decoded_image)
EncodeTile ==
    /\ pc = "decoded"
    /\ \E encoded \in {encode_tile([width |-> png.width, height |-> png.height,
                                    image_data |-> image_data,
                                    color_numbers |-> color_numbers])} :
          /\ err' = encoded.panic
          /\ tile_data' = encoded.tile_data
          /\ pc' = IF encoded.panic = "none" THEN "encoded" ELSE "failed"
    /\ UNCHANGED <<png, image_data, unique_colors, stopped_at, color_numbers,
                   out_file, out_opened, fn_in, fn_out>>

\* write_tile(&encoded_tile, &args.output, args.output_type).expect(..); the file
\* name is args.input, which decode_image and encode_tile hand on unchanged
WriteTile ==
    /\ pc = "encoded"
    /\ \E input_filename \in InputFilenames, output_type \in OutputTypes, opens \in BOOLEAN :
          LET variable_name == FileStem(input_filename)
          IN  IF ~variable_name.some
              THEN /\ err' = "InvalidFileName"
                   /\ pc' = "failed"
                   /\ UNCHANGED <<out_file, out_opened>>
              ELSE IF ~opens
              THEN /\ err' = "WriteIo"
                   /\ pc' = "failed"
                   /\ UNCHANGED <<out_file, out_opened>>
              ELSE /\ out_opened' = TRUE
                   /\ out_file' = FormattedResult(variable_name.stem, tile_data, output_type)
                   /\ pc' = "done"
                   /\ UNCHANGED err
    /\ UNCHANGED <<png, image_data, unique_colors, stopped_at, color_numbers,
                   tile_data, fn_in, fn_out>>

Next == DecodeFails \/ DecodeImage \/ EncodeTile \/ WriteTile

Spec == Init /\ [][Next]_vars

----------------------------------------------------------------------------
(* map_2bit on its own: every color of a grid of 8-bit channel values *)

\* both ends of each of the 8 ranges RGB::round maps to one value
Channels == {32 * k + d : k \in 0..7, d \in {0, 31}}

Colors == [r : Channels, g : Channels, b : Channels]

InitMap2bit ==
    /\ pc = "map_2bit"
    /\ fn_in \in Colors
    /\ fn_out = << >>
    /\ png = << >>
    /\ image_data = << >>
    /\ unique_colors = {}
    /\ stopped_at = -1
    /\ color_numbers = << >>
    /\ tile_data = << >>
    /\ err = "none"
    /\ out_file = StaleContent
    /\ out_opened = FALSE

CallMap2bit ==
    /\ pc = "map_2bit"
    /\ fn_out' = map_2bit(fn_in)
    /\ pc' = "map_2bit returned"
    /\ UNCHANGED <<png, image_data, unique_colors, stopped_at, color_numbers,
                   tile_data, err, out_file, out_opened, fn_in>>

SpecMap2bit == InitMap2bit /\ [][CallMap2bit]_vars

----------------------------------------------------------------------------
(* write_tile_gbdk on its own: byte streams of every length up to MaxStream *)

Symbols == { <<"f", "o", "o">>, <<"b", "g", "_", "2">> }

\* n bytes: first, first + step, first + 2 * step, ... (as u8)
Stream(n, first, step) == [k \in 1..n |-> U8(first + (k - 1) * step)]

Streams == {Stream(n, first, step) : n \in 0..MaxStream, first \in {0, 9, 200},
                                     step \in {0, 1, 23}}

InitGbdk ==
    /\ pc = "write_tile_gbdk"
    /\ fn_in \in [variable_name : Symbols, tile_data : Streams]
    /\ fn_out = << >>
    /\ png = << >>
    /\ image_data = << >>
    /\ unique_colors = {}
    /\ stopped_at = -1
    /\ color_numbers = << >>
    /\ tile_data = << >>
    /\ err = "none"
    /\ out_file = StaleContent
    /\ out_opened = FALSE

CallWriteTileGbdk ==
    /\ pc = "write_tile_gbdk"
    /\ fn_out' = write_tile_gbdk(fn_in.variable_name, fn_in.tile_data)
    /\ pc' = "write_tile_gbdk returned"
    /\ UNCHANGED <<png, image_data, unique_colors, stopped_at, color_numbers,
                   tile_data, err, out_file, out_opened, fn_in>>

SpecGbdk == InitGbdk /\ [][CallWriteTileGbdk]_vars

----------------------------------------------------------------------------
(* Properties of encode_tile, stated of the state main reaches when encode_tile
   has returned *)

EncodeTileReturned == pc = "encoded"

Divisible == png.width % 8 = 0 /\ png.height % 8 = 0

\* bit n of a byte, bit 0 the least significant
Bit(byte, n) == (byte \div Pow2(n)) % 2

\* the palette index of the pixel in column x of row y of the image
IndexAt(x, y) == color_numbers[image_data[y * png.width + x + 1]]

\* C1: every emitted row is a low byte followed by a high byte, and for pixel p
\* (0 = leftmost) of that row with palette index c, bit 7 - p of the low byte is
\* c & 1 and bit 7 - p of the high byte is (c >> 1) & 1.  Row j of the stream is row
\* j % 8 of tile j / 8, and the tiles go left to right, then top to bottom.
C1_BitPlanes ==
    EncodeTileReturned =>
        /\ Len(tile_data) % 2 = 0
        /\ \A j \in 0..((Len(tile_data) \div 2) - 1) :
              LET tile == j \div 8
                  r == j % 8
                  R == tile \div (png.width \div 8)
                  C == tile % (png.width \div 8)
              IN  \A p \in 0..7 :
                     LET c == IndexAt(8 * C + p, 8 * R + r)
                     IN  /\ c \in 0..3
                         /\ Bit(tile_data[2 * j + 1], 7 - p) = c % 2
                         /\ Bit(tile_data[2 * j + 2], 7 - p) = (c \div 2) % 2

\* a row whose two bytes differ and are neither all zeros nor all ones was emitted
C1_Witness ==
    /\ EncodeTileReturned
    /\ \E j \in 0..((Len(tile_data) \div 2) - 1) :
          /\ tile_data[2 * j + 1] \notin {0, 255}
          /\ tile_data[2 * j + 2] \notin {0, 255, tile_data[2 * j + 1]}

\* the byte of bit plane `plane` (0 = low, 1 = high) for row r of the block at block
\* row R, block column C: pixel 0 in the most significant bit
PlaneByte(R, C, r, plane) ==
    LET b(p) == Bit(IndexAt(8 * C + p, 8 * R + r), plane)
    IN  128 * b(0) + 64 * b(1) + 32 * b(2) + 16 * b(3)
            + 8 * b(4) + 4 * b(5) + 2 * b(6) + b(7)

\* C3: for a W x H image, both divisible by 8, the tile at block row R, block column
\* C occupies stream offsets 16 * (R * (W / 8) + C) .. + 15, its row r at offset + 2r
\* (low byte, then high byte); the stream holds nothing else.
C3_BlockOrder ==
    (EncodeTileReturned /\ Divisible) =>
        /\ Len(tile_data) = 16 * (png.width \div 8) * (png.height \div 8)
        /\ \A R \in 0..((png.height \div 8) - 1), C \in 0..((png.width \div 8) - 1) :
              \A r \in 0..7 :
                 LET offset == 16 * (R * (png.width \div 8) + C) + 2 * r
                 IN  /\ tile_data[offset + 1] = PlaneByte(R, C, r, 0)
                     /\ tile_data[offset + 2] = PlaneByte(R, C, r, 1)

\* a 16 x 16 image whose four tiles are pairwise different has been encoded
C3_Witness ==
    /\ EncodeTileReturned
    /\ png.width = 16 /\ png.height = 16
    /\ \A s, t \in 0..3 :
          s # t => SubSeq(tile_data, 16 * s + 1, 16 * s + 16)
                      # SubSeq(tile_data, 16 * t + 1, 16 * t + 16)

\* the palette index the stream holds for the pixel in column x of row y
Unpack(x, y) ==
    LET offset == 16 * ((y \div 8) * (png.width \div 8) + (x \div 8)) + 2 * (y % 8)
        p == x % 8
    IN  Bit(tile_data[offset + 1], 7 - p) + 2 * Bit(tile_data[offset + 2], 7 - p)

\* C4: for an image with both dimensions divisible by 8, unpacking the stream gives
\* back the palette index of every pixel.
C4_RoundTrip ==
    (EncodeTileReturned /\ Divisible) =>
        \A y \in 0..(png.height - 1), x \in 0..(png.width - 1) : Unpack(x, y) = IndexAt(x, y)

\* an image of more than one block in which all four palette indices occur
C4_Witness ==
    /\ EncodeTileReturned /\ Divisible
    /\ png.width > 8
    /\ {color_numbers[c] : c \in DOMAIN color_numbers} = 0..3

\* C5: for an image with both dimensions divisible by 8 the stream is exactly
\* width * height / 4 bytes long.
C5_ByteLength ==
    (EncodeTileReturned /\ Divisible) => 4 * Len(tile_data) = png.width * png.height

\* a 16 x 8 image gave 32 bytes
C5_Witness ==
    /\ EncodeTileReturned
    /\ png.width = 16 /\ png.height = 8
    /\ Len(tile_data) = 32

\* the image cut down to its whole blocks: the top-left 8*(W/8) x 8*(H/8) pixels
CroppedImage ==
    LET w == 8 * (png.width \div 8)
        h == 8 * (png.height \div 8)
    IN  [width |-> w, height |-> h, color_numbers |-> color_numbers,
         image_data |-> [i \in 1..(w * h) |->
                            image_data[((i - 1) \div w) * png.width + ((i - 1) % w) + 1]]]

\* C10: whatever the dimensions, encode_tile returns (no pixel index reaches the
\* end of the W * H pixel buffer), and its output is the 16 * (W/8) * (H/8) bytes
\* that encoding the image cut down to its whole blocks gives.
C10_WholeBlocksOnly ==
    /\ err # "IndexOutOfBounds"
    /\ pc = "decoded" => Len(image_data) = png.width * png.height
    /\ EncodeTileReturned =>
          /\ Len(tile_data) = 16 * (png.width \div 8) * (png.height \div 8)
          /\ tile_data = encode_tile(CroppedImage).tile_data

\* an image with surplus columns and rows, and at least two blocks, was encoded
C10_Witness ==
    /\ EncodeTileReturned
    /\ png.width % 8 # 0 /\ png.height % 8 # 0
    /\ Len(tile_data) >= 32
    /\ tile_data # SubSeq(tile_data, 17, 32) \o SubSeq(tile_data, 1, 16)

----------------------------------------------------------------------------
(* Properties of decode_image *)

Range(f) == {f[k] : k \in DOMAIN f}

\* the Pixel Buffer of a frame: what read_image_data makes of the decoder's bytes
PixelBuffer(p) == read_image_data(p.color_type, ImageBuf(p)).data

\* the colors of the first n pixels of a buffer
PrefixColors(buf, n) == {buf[k] : k \in 1..n}

\* the palette index the luminance policy gives a channel sum
LuminanceBucket(sum) ==
    CASE sum \in 0..191 -> 3
      [] sum \in 192..382 -> 2
      [] sum \in 383..573 -> 1
      [] sum \in 574..765 -> 0

\* C6 as the spec states it: decode_image never fails because of color diversity
C6_NeverTooManyColors == err # "TooManyColors"

\* C6 amended: decode_image keeps the budget of 4 distinct post-rounding colors also
\* under the luminance policy.  An image it accepts has at most 4 distinct colors,
\* each mapped to an index in 0..3 (colors may share an index); an image it rejects
\* with TooManyColors has shown 5 distinct colors, however few luminance buckets
\* these fall into.
C6_BudgetBeforeBuckets ==
    /\ pc = "decoded" =>
          /\ Cardinality(Range(image_data)) <= 4
          /\ unique_colors = Range(image_data)
          /\ \A c \in unique_colors : color_numbers[c] \in 0..3
    /\ err = "TooManyColors" =>
          /\ pc = "failed"
          /\ Cardinality(unique_colors) = 5
          /\ unique_colors \subseteq Range(PixelBuffer(png))
          /\ Cardinality({map_2bit(c) : c \in unique_colors}) <= 4

\* an image was rejected whose five colors all fall into one luminance bucket
C6_Witness ==
    /\ pc = "failed" /\ err = "TooManyColors"
    /\ Cardinality({map_2bit(c) : c \in unique_colors}) = 1

C9_PaletteMap ==
    /\ err # "MissingColor"
    /\ pc \in {"decoded", "encoded"} =>
          /\ DOMAIN color_numbers = Range(image_data)
          /\ \A c \in DOMAIN color_numbers :
                color_numbers[c] = LuminanceBucket(c.r + c.g + c.b)

\* encode_tile has looked up the pixels of an image of four colors, two of which
\* share an index
C9_Witness ==
    /\ pc = "encoded"
    /\ Len(tile_data) > 0
    /\ Cardinality(DOMAIN color_numbers) = 4
    /\ Cardinality(Range(color_numbers)) < 4

----------------------------------------------------------------------------
(* Properties of map_2bit *)

\* the colors a result is compared with
CoarseColors ==
    [r : {0, 63, 64, 127, 128, 191, 192, 255}, g : {0, 63, 64, 127, 128, 191, 192, 255},
     b : {0, 63, 64, 127, 128, 191, 192, 255}]

\* C2: map_2bit returns the index fixed by the channel sum s alone: 3 if s <= 191,
\* 2 if 191 < s <= 382, 1 if 382 < s <= 573, 0 if s > 573; the sum fits in 16 bits,
\* the result is in 0..3, and a color of the same sum gets the same index.
C2_LuminanceBuckets ==
    pc = "map_2bit returned" =>
        LET s == fn_in.r + fn_in.g + fn_in.b
        IN  /\ s < 65536
            /\ fn_out \in 0..3
            /\ fn_out = LuminanceBucket(s)
            /\ \A c \in CoarseColors : c.r + c.g + c.b = s => map_2bit(c) = fn_out

\* map_2bit has returned for a color whose sum is the upper end of a bucket
C2_Witness ==
    /\ pc = "map_2bit returned"
    /\ fn_in.r + fn_in.g + fn_in.b = 382
    /\ fn_out = 2

----------------------------------------------------------------------------
(* Properties of write_tile_gbdk *)

\* the value of a hexadecimal digit, -1 for any other character
HexValue(ch) ==
    LET upper == {k \in DOMAIN UpperDigits : UpperDigits[k] = ch}
        lower == {k \in DOMAIN LowerDigits : LowerDigits[k] = ch}
    IN  IF upper \cup lower = {} THEN -1 ELSE (CHOOSE k \in upper \cup lower : TRUE) - 1

\* C8: for symbol S and n >= 1 bytes the text is 'unsigned char S[] = {', a newline,
\* then the bytes 16 to a line: each line four spaces and its entries joined by ',',
\* an entry '0x' and the two hexadecimal digits of the byte; a line that is not the
\* last is followed by ',' and a newline, the last by a newline, '};' and a newline.
\* A full line is 4 + 16 * 4 + 15 characters, 85 with its ',' and newline.
C8_GbdkText ==
    (pc = "write_tile_gbdk returned" /\ Len(fn_in.tile_data) >= 1) =>
        LET S == fn_in.variable_name
            bytes == fn_in.tile_data
            text == fn_out
            n == Len(bytes)
            lines == (n + 15) \div 16
            head == Len(S) + 21
            At(l, e) == head + 85 * l + 4 + 5 * e
            last == n - 16 * (lines - 1)
        IN  /\ Len(text) = At(lines - 1, last) + 3
            /\ SubSeq(text, 1, 14)
                 = <<"u", "n", "s", "i", "g", "n", "e", "d", " ", "c", "h", "a", "r", " ">>
            /\ SubSeq(text, 15, 14 + Len(S)) = S
            /\ SubSeq(text, 15 + Len(S), head) = <<"[", "]", " ", "=", " ", "{", "\n">>
            /\ \A l \in 0..(lines - 1) :
                  /\ SubSeq(text, head + 85 * l + 1, head + 85 * l + 4)
                        = <<" ", " ", " ", " ">>
                  /\ l < lines - 1 =>
                        SubSeq(text, At(l, 16), At(l, 16) + 1) = <<",", "\n">>
            /\ \A k \in 0..(n - 1) :
                  LET l == k \div 16
                      e == k % 16
                  IN  /\ text[At(l, e) + 1] = "0"
                      /\ text[At(l, e) + 2] = "x"
                      /\ HexValue(text[At(l, e) + 3]) = bytes[k + 1] \div 16
                      /\ HexValue(text[At(l, e) + 4]) = bytes[k + 1] % 16
                      /\ (e < 15 /\ k < n - 1) => text[At(l, e) + 5] = ","
            /\ SubSeq(text, At(lines - 1, last), At(lines - 1, last) + 3)
                  = <<"\n", "}", ";", "\n">>

\* 33 bytes, some of them below 16, were written: two full lines and a line of one
C8_Witness ==
    /\ pc = "write_tile_gbdk returned"
    /\ Len(fn_in.tile_data) = 33
    /\ \E k \in 1..33 : fn_in.tile_data[k] < 16
    /\ \E k \in 1..33 : fn_in.tile_data[k] > 16

====
